---- MODULE Spec2Model ----
(***************************************************************************)
(* Call task orchestration of app.py: the call_tasks and call_events       *)
(* tables and the request handlers that read and write them                *)
(* (/call/schedule, /call/<id>/cancel, /n8n/call/<id>/start|turn|complete| *)
(* error, /twilio/voice/respond, /twilio/status).  One action is one       *)
(* handled request, from its first query to its response.                  *)
(***************************************************************************)
EXTENDS Integers, Sequences, FiniteSets, TLC

(* ----------------------------- bounds ---------------------------------- *)
\* rows the call_tasks table may hold
MaxCalls == 2
\* rows the call_events table may hold
MaxEvents == 4
\* last value of the clock
MaxTime == 1

(* ------------------------- program constants --------------------------- *)
COST_PER_MIN_ELEVENLABS_AGENT == 10
COST_PER_MIN_TWILIO_CUSTOM == 2
WEEKLY_COST_LIMIT_CENTS == 2000
WEEKLY_CALLS_PER_USER == 4

(* ------------------------------ values --------------------------------- *)
\* Python None / SQL NULL in a text column, and in an integer or time column
None == "None"
NoneInt == 0 - 1

\* rows of the users table; current_user() returns User.query.first()
UserIds == {1, 2}

\* call ids a request may carry: the stored ones and one that names no row
CallIds == 1 .. (MaxCalls + 1)

\* Twilio call sids a notification may carry
Sids == {"CA1", "CA2"}

\* duration_seconds of a /complete body (None: the key is absent)
DurationSeconds == {NoneInt, 60, 125}

\* CallDuration form values of /twilio/status
CallDurations == {"0", "125"}

\* result_status of a /complete body ("absent": the key is missing)
ResultStatuses == {"absent", "success"}

\* result_summary of a /complete body (None: the key is absent)
ResultSummaries == {"Reservation confirmed for 7pm"}

\* target_phone of a /call/schedule body ("": missing or empty)
TargetPhones == {"", "+15551234567"}

\* scheduled_at of a /call/schedule body (None: absent, the call is immediate)
ScheduledAts == {NoneInt, MaxTime}

\* what _initiate_elevenlabs_agent_call does: it returns the response's JSON,
\* with or without a callSid, or raises (HTTP error, timeout)
DispatchOutcomes == {[ok |-> TRUE, callSid |-> s] : s \in {"CA1", None}}
                    \cup {[ok |-> FALSE, callSid |-> None]}

\* speakers of a /turn body
Speakers == {"human", "ai"}

\* CallStatus values of /twilio/status
CallStatuses == {"ringing", "completed", "no-answer", "canceled"}

\* SpeechResult values of /twilio/voice/respond
SpeechResults == {"", "yes", "goodbye"}

\* replies of the text generator
AiReplies == {"confirmed"}

VARIABLES
    config,       \* ELEVENLABS_AGENT_ID / ELEVENLABS_PHONE_NUMBER_ID are set
    users,        \* users table: id -> [is_admin]
    call_tasks,   \* call_tasks table: sequence of rows, the id is the index
    call_events,  \* call_events table: sequence of rows, the id is the index
    now,          \* datetime.utcnow()
    session       \* the requests being handled, one per worker, when a handler
                  \* is followed commit by commit; idle when it is taken whole

vars == <<config, users, call_tasks, call_events, now, session>>

(* ------------------------------ helpers -------------------------------- *)
\* truthiness of an optional integer: None and 0 are falsy
Truthy(n) == n # NoneInt /\ n # 0

Max(a, b) == IF a >= b THEN a ELSE b

\* the events of one call task, in insertion (id) order
RECURSIVE EventsOfIn(_, _)
EventsOfIn(events, id) ==
    IF events = <<>> THEN <<>>
    ELSE IF Head(events).call_task_id = id
         THEN <<Head(events)>> \o EventsOfIn(Tail(events), id)
         ELSE EventsOfIn(Tail(events), id)

\* how many events of one type a call task has
RECURSIVE CountIn(_, _, _)
CountIn(events, id, type) ==
    IF events = <<>> THEN 0
    ELSE (IF Head(events).call_task_id = id /\ Head(events).event_type = type THEN 1 ELSE 0)
         + CountIn(Tail(events), id, type)

\* a log that puts the new event before the recorded ones
log_call_event_prepending(events, call_task_id, event_type, payload, error) ==
    <<[call_task_id |-> call_task_id,
       event_type |-> event_type,
       timestamp |-> now,
       payload |-> payload,
       error_message |-> error]>> \o events

\* CallEvent(...) ; db.session.add ; db.session.commit
log_call_event(events, call_task_id, event_type, payload, error) ==
    Append(events, [call_task_id |-> call_task_id,
                    event_type |-> event_type,
                    timestamp |-> now,
                    payload |-> payload,
                    error_message |-> error])

\* the clock is in ticks; a week is TicksPerWeek of them
TicksPerWeek == 2

\* a window that reaches one week back from now
_get_week_start_rolling == now - TicksPerWeek

\* Monday 00:00 UTC of the current week
_get_week_start == now - (now % TicksPerWeek)

RECURSIVE SumCost(_, _)
SumCost(rows, week_start) ==
    IF rows = <<>> THEN 0
    ELSE (IF Head(rows).created_at >= week_start /\ Head(rows).cost_cents # NoneInt
          THEN Head(rows).cost_cents ELSE 0)
         + SumCost(Tail(rows), week_start)

_weekly_total_cost_cents == SumCost(call_tasks, _get_week_start)

_weekly_user_call_count(user_id) ==
    Cardinality({i \in DOMAIN call_tasks :
                    /\ call_tasks[i].user_id = user_id
                    /\ call_tasks[i].created_at >= _get_week_start})

\* the routing decision with the cost ceiling itself still allowed
_should_use_elevenlabs_agent_at_ceiling(user_id) ==
    IF ~config.agent_id \/ ~config.phone_number_id THEN FALSE
    ELSE IF user_id \in DOMAIN users /\ users[user_id].is_admin THEN TRUE
    ELSE IF _weekly_total_cost_cents > WEEKLY_COST_LIMIT_CENTS THEN FALSE
    ELSE IF _weekly_user_call_count(user_id) >= WEEKLY_CALLS_PER_USER THEN FALSE
    ELSE TRUE

_should_use_elevenlabs_agent(user_id) ==
    IF ~config.agent_id \/ ~config.phone_number_id THEN FALSE
    ELSE IF user_id \in DOMAIN users /\ users[user_id].is_admin THEN TRUE
    ELSE IF _weekly_total_cost_cents >= WEEKLY_COST_LIMIT_CENTS THEN FALSE
    ELSE IF _weekly_user_call_count(user_id) >= WEEKLY_CALLS_PER_USER THEN FALSE
    ELSE TRUE

\* the per-minute rate chosen from the task's routing
RateOf(routing_type) ==
    IF routing_type = "elevenlabs_agent" THEN COST_PER_MIN_ELEVENLABS_AGENT
    ELSE COST_PER_MIN_TWILIO_CUSTOM

\* max(1, int(duration_seconds / 60 * rate))
CostCents(duration_seconds, routing_type) ==
    Max(1, (duration_seconds * RateOf(routing_type)) \div 60)

\* int(duration) of the CallDuration form value
IntOf(duration) == IF duration = "125" THEN 125 ELSE 0

\* any(signal in speech_result.lower() for signal in end_signals)
HasEndSignal(speech_result) == speech_result \in {"goodbye"}

\* CallTask.query.filter_by(twilio_call_sid=sid): the matching rows
BySid(sid) == {i \in DOMAIN call_tasks : call_tasks[i].twilio_call_sid = sid}

(* ------------------------------- Init ---------------------------------- *)
\* workers that handle requests side by side
MaxWorkers == 2
Workers == 1 .. MaxWorkers

\* a worker with no request
Idle == [op |-> "idle"]
NoSession == [w \in Workers |-> Idle]

Init ==
    /\ config \in [agent_id : BOOLEAN, phone_number_id : {TRUE}]
    /\ users = [u \in UserIds |-> [is_admin |-> FALSE]]
    /\ call_tasks = <<>>
    /\ call_events = <<>>
    /\ now = 0
    /\ session = NoSession

(* ----------------------------- responses ------------------------------ *)
\* what a handler returns: the HTTP code, the error of an error body, and the
\* status field of the body (None where the body has none)
Resp(code, error, status) == [code |-> code, error |-> error, status |-> status]

n8n_call_start_response(call_id) ==
    IF call_id \notin DOMAIN call_tasks THEN Resp(404, "call_not_found", None)
    ELSE Resp(200, None, "in_progress")

n8n_call_turn_response(call_id) ==
    IF call_id \notin DOMAIN call_tasks THEN Resp(404, "call_not_found", None)
    ELSE Resp(200, None, None)

n8n_call_complete_response(call_id) ==
    IF call_id \notin DOMAIN call_tasks THEN Resp(404, "call_not_found", None)
    ELSE Resp(200, None, "completed")

n8n_call_error_response(call_id) ==
    IF call_id \notin DOMAIN call_tasks THEN Resp(404, "call_not_found", None)
    ELSE Resp(200, None, "failed")

schedule_call_response(target_phone) ==
    IF target_phone = "" THEN Resp(400, "target_phone required", None)
    ELSE Resp(201, None, None)

\* cancel_call with the status guard testing only for a finished call
cancel_call_response_no_guard(user, call_id) ==
    IF call_id \notin DOMAIN call_tasks THEN Resp(404, "call_not_found", None)
    ELSE IF call_tasks[call_id].user_id # user THEN Resp(403, "unauthorized", None)
    ELSE IF call_tasks[call_id].status \in {"completed", "failed", "canceled"}
         THEN Resp(400, "call_cannot_be_canceled", call_tasks[call_id].status)
    ELSE Resp(200, None, "canceled")

\* cancel_call without the check of the owner
cancel_call_response_any_user(user, call_id) ==
    IF call_id \notin DOMAIN call_tasks THEN Resp(404, "call_not_found", None)
    ELSE IF call_tasks[call_id].status \notin {"draft", "scheduled"}
         THEN Resp(400, "call_cannot_be_canceled", call_tasks[call_id].status)
    ELSE Resp(200, None, "canceled")

cancel_call_response(user, call_id) ==
    IF call_id \notin DOMAIN call_tasks THEN Resp(404, "call_not_found", None)
    ELSE IF call_tasks[call_id].user_id # user THEN Resp(403, "unauthorized", None)
    ELSE IF call_tasks[call_id].status \notin {"draft", "scheduled"}
         THEN Resp(400, "call_cannot_be_canceled", call_tasks[call_id].status)
    ELSE Resp(200, None, "canceled")

\* /twilio/status answers ok=True whether or not a row has the CallSid
twilio_status_webhook_response == Resp(200, None, None)

(* ------------------------------ actions -------------------------------- *)
\* the clock advances between requests
Tick ==
    /\ now < MaxTime
    /\ now' = now + 1
    /\ UNCHANGED <<config, users, call_tasks, call_events, session>>

\* POST /n8n/call/<call_id>/start
n8n_call_start(call_id, sid) ==
    IF n8n_call_start_response(call_id).code # 200
    THEN UNCHANGED vars
    ELSE /\ Len(call_events) < MaxEvents
         /\ call_tasks' = [call_tasks EXCEPT ![call_id].status = "in_progress",
                                             ![call_id].started_at = now,
                                             ![call_id].twilio_call_sid = sid]
         /\ call_events' = log_call_event(call_events, call_id, "started",
                                          [twilio_call_sid |-> sid], None)
         /\ UNCHANGED <<config, users, now, session>>

\* POST /n8n/call/<call_id>/turn
n8n_call_turn(call_id, speaker, text) ==
    IF n8n_call_turn_response(call_id).code # 200
    THEN UNCHANGED vars
    ELSE /\ Len(call_events) < MaxEvents
         /\ call_events' = log_call_event(call_events, call_id, "turn",
                                          [speaker |-> speaker, text |-> text], None)
         /\ call_tasks' = [call_tasks EXCEPT ![call_id].transcript =
                              Append(@, [speaker |-> speaker, text |-> text])]
         /\ UNCHANGED <<config, users, now, session>>

\* POST /n8n/call/<call_id>/complete
n8n_call_complete(call_id, result_status, result_summary, duration_seconds) ==
    IF n8n_call_complete_response(call_id).code # 200
    THEN UNCHANGED vars
    ELSE LET call == call_tasks[call_id]
             stored == IF result_status = "absent" THEN "completed" ELSE result_status
         IN  /\ Len(call_events) < MaxEvents
             /\ call_tasks' = [call_tasks EXCEPT ![call_id] =
                   [call EXCEPT !.status = "completed",
                                !.completed_at = now,
                                !.result_status = stored,
                                !.result_summary = result_summary,
                                !.duration_seconds = duration_seconds,
                                !.cost_cents =
                                    IF Truthy(duration_seconds)
                                    THEN CostCents(duration_seconds, call.routing_type)
                                    ELSE @]]
             /\ call_events' = log_call_event(call_events, call_id, "completed",
                                   [result_status |-> stored,
                                    result_summary |-> result_summary,
                                    duration_seconds |-> duration_seconds], None)
             /\ UNCHANGED <<config, users, now, session>>

\* POST /n8n/call/<call_id>/error
n8n_call_error(call_id, error_message) ==
    IF n8n_call_error_response(call_id).code # 200
    THEN UNCHANGED vars
    ELSE /\ Len(call_events) < MaxEvents
         /\ call_tasks' = [call_tasks EXCEPT ![call_id].status = "failed",
                                             ![call_id].completed_at = now,
                                             ![call_id].result_status = "failed",
                                             ![call_id].result_summary = error_message]
         /\ call_events' = log_call_event(call_events, call_id, "error",
                               [error_message |-> error_message], error_message)
         /\ UNCHANGED <<config, users, now, session>>

\* a new CallTask row as schedule_call builds it; the other columns keep their defaults
NewCallTask(user_id, target_phone, scheduled_at, routing_type) ==
    [user_id |-> user_id,
     status |-> "scheduled",
     target_phone |-> target_phone,
     scheduled_at |-> scheduled_at,
     twilio_call_sid |-> None,
     result_status |-> None,
     result_summary |-> None,
     transcript |-> <<>>,
     created_at |-> now,
     started_at |-> NoneInt,
     completed_at |-> NoneInt,
     routing_type |-> routing_type,
     duration_seconds |-> NoneInt,
     cost_cents |-> NoneInt]

\* GET /usage: current_routing of the answer
usage_stats(user) ==
    IF users[user].is_admin THEN "elevenlabs_agent (admin bypass)"
    ELSE IF _weekly_total_cost_cents >= WEEKLY_COST_LIMIT_CENTS
         THEN "twilio_custom (weekly cost limit reached)"
    ELSE IF _weekly_user_call_count(user) >= WEEKLY_CALLS_PER_USER
         THEN "twilio_custom (user call limit reached)"
    ELSE IF ~config.agent_id THEN "twilio_custom (agent not configured)"
    ELSE "elevenlabs_agent"

\* routing_type="elevenlabs_agent" if use_agent else "twilio_custom"
RoutingOf(use_agent) == IF use_agent THEN "elevenlabs_agent" ELSE "twilio_custom"

\* a dispatch that returned and also rerouted the row
DispatchedRow_rerouted(call, outcome) ==
    [call EXCEPT !.status = "in_progress",
                 !.started_at = now,
                 !.twilio_call_sid = outcome.callSid,
                 !.routing_type = "twilio_custom"]

\* the row after a dispatch that returned: in_progress, started, with the callSid
\* of the answer (None when the answer has none)
DispatchedRow(call, outcome) ==
    [call EXCEPT !.status = "in_progress",
                 !.started_at = now,
                 !.twilio_call_sid = outcome.callSid]

\* a dispatch that raised and still marked the row started
FallbackRow_started(call) ==
    [call EXCEPT !.routing_type = "twilio_custom",
                 !.status = "in_progress",
                 !.started_at = now]

\* the row after a dispatch that raised: routed to twilio_custom, otherwise as stored
FallbackRow(call) == [call EXCEPT !.routing_type = "twilio_custom"]

\* what schedule_call does once the body is accepted; outcome is what the agent
\* dispatch does if it is attempted
ScheduleEffect(user, target_phone, scheduled_at_in, outcome) ==
    LET scheduled_at == IF scheduled_at_in # NoneInt THEN scheduled_at_in ELSE now
        use_agent == _should_use_elevenlabs_agent(user)
        id == Len(call_tasks) + 1
        call == NewCallTask(user, target_phone, scheduled_at, RoutingOf(use_agent))
        created == log_call_event(call_events, id, "created",
                       [target_phone |-> target_phone,
                        scheduled_at |-> scheduled_at,
                        routing_type |-> call.routing_type], None)
    IN  /\ IF ~use_agent
           THEN /\ call_tasks' = Append(call_tasks, call)
                /\ call_events' = created
           ELSE IF outcome.ok
           THEN /\ call_tasks' = Append(call_tasks, DispatchedRow(call, outcome))
                /\ call_events' = log_call_event(created, id, "started",
                       [routing_type |-> "elevenlabs_agent",
                        twilio_call_sid |-> outcome.callSid], None)
           ELSE /\ call_tasks' = Append(call_tasks, FallbackRow(call))
                /\ call_events' = log_call_event(created, id, "agent_fallback",
                       [error |-> "dispatch failed"], None)
        /\ UNCHANGED <<config, users, now, session>>

\* POST /call/schedule
schedule_call(user, target_phone, scheduled_at_in, outcome) ==
    IF schedule_call_response(target_phone).code # 201
    THEN UNCHANGED vars
    ELSE /\ Len(call_tasks) < MaxCalls
         /\ Len(call_events) + (IF _should_use_elevenlabs_agent(user) THEN 2 ELSE 1)
               <= MaxEvents
         /\ ScheduleEffect(user, target_phone, scheduled_at_in, outcome)

\* POST /call/<call_id>/cancel
cancel_call(user, call_id) ==
    IF cancel_call_response(user, call_id).code # 200
    THEN UNCHANGED vars
    ELSE /\ Len(call_events) < MaxEvents
         /\ call_tasks' = [call_tasks EXCEPT ![call_id].status = "canceled"]
         \* the payload is built after the assignment: it reads the new status
         /\ call_events' = log_call_event(call_events, call_id, "canceled",
                               [previous_status |-> "canceled"], None)
         /\ UNCHANGED <<config, users, now, session>>

\* the row .first() returns for a CallSid: one of the matching rows, 0 when none matches
First(call_sid) == IF BySid(call_sid) = {} THEN {0} ELSE BySid(call_sid)

\* the reply spoken for a SpeechResult: the generator's, or the fixed one for silence
AiResponse(speech_result, reply) ==
    IF speech_result # "" THEN reply
    ELSE "Sorry, I didn't catch that. Could you say that again?"

\* POST /twilio/voice/respond, for the row `found` that .first() returned
twilio_voice_respond(call_sid, speech_result, reply, found) ==
    IF found = 0
    THEN UNCHANGED vars
    ELSE /\ Len(call_events) + 2 <= MaxEvents
         /\ call_events' =
               log_call_event(
                   log_call_event(call_events, found, "turn",
                                  [speaker |-> "human", text |-> speech_result], None),
                   found, "turn",
                   [speaker |-> "ai", text |-> AiResponse(speech_result, reply)], None)
         /\ IF HasEndSignal(speech_result)
            THEN call_tasks' = [call_tasks EXCEPT ![found].status = "completed",
                                                  ![found].completed_at = now,
                                                  ![found].result_status = "success"]
            ELSE UNCHANGED call_tasks
         /\ UNCHANGED <<config, users, now, session>>

\* POST /twilio/status, for the row `found` that .first() returned
twilio_status_webhook(call_sid, call_status, duration, found) ==
    IF found = 0
    THEN UNCHANGED vars
    ELSE LET call == call_tasks[found]
             duration_seconds == IntOf(duration)
         IN  /\ Len(call_events) < MaxEvents
             /\ call_events' = log_call_event(call_events, found,
                                   "twilio_status_" \o call_status,
                                   [call_status |-> call_status, duration |-> duration],
                                   None)
             /\ IF call_status = "completed"
                THEN IF call.status # "completed"
                     THEN call_tasks' = [call_tasks EXCEPT ![found] =
                             [call EXCEPT !.status = "completed",
                                          !.completed_at = now,
                                          !.duration_seconds = duration_seconds,
                                          !.cost_cents =
                                              IF Truthy(duration_seconds)
                                              THEN CostCents(duration_seconds,
                                                             call.routing_type)
                                              ELSE @]]
                     ELSE UNCHANGED call_tasks
                ELSE IF call_status \in {"busy", "no-answer", "failed", "canceled"}
                THEN call_tasks' = [call_tasks EXCEPT ![found] =
                             [call EXCEPT !.status = "failed",
                                          !.result_status =
                                              IF call_status = "no-answer"
                                              THEN "no_answer" ELSE call_status,
                                          !.completed_at = now]]
                ELSE UNCHANGED call_tasks
             /\ UNCHANGED <<config, users, now, session>>

(* ------------------------------- Next ---------------------------------- *)
Next ==
    \/ Tick
    \/ \E u \in DOMAIN users, p \in TargetPhones, at \in ScheduledAts, o \in DispatchOutcomes :
          schedule_call(u, p, at, o)
    \/ \E u \in DOMAIN users, id \in CallIds : cancel_call(u, id)
    \/ \E id \in CallIds, sid \in Sids \cup {None} : n8n_call_start(id, sid)
    \/ \E id \in CallIds, sp \in Speakers : n8n_call_turn(id, sp, "yes")
    \/ \E id \in CallIds, rs \in ResultStatuses, sm \in ResultSummaries, d \in DurationSeconds :
          n8n_call_complete(id, rs, sm, d)
    \/ \E id \in CallIds : n8n_call_error(id, "Twilio API timeout")
    \/ \E sid \in Sids, sr \in SpeechResults, r \in AiReplies :
          \E f \in First(sid) : twilio_voice_respond(sid, sr, r, f)
    \/ \E sid \in Sids, cs \in CallStatuses, d \in CallDurations :
          \E f \in First(sid) : twilio_status_webhook(sid, cs, d, f)

Spec == Init /\ [][Next]_vars

(* ------------------- routing over a week's history -------------------- *)
\* rows the table holds when the routing decision is taken
MaxRows == 4

\* cost_cents of an earlier call: not finalized, or finalized
HistoryCosts == {NoneInt, 1, WEEKLY_COST_LIMIT_CENTS - 1}

\* created_at of an earlier call: the last tick of the week before, or the
\* first of this one
HistoryTimes == {TicksPerWeek - 1, TicksPerWeek}

\* a row left by an earlier call: still scheduled while its cost is open,
\* completed once it is finalized
HistoryRow(user_id, created_at, cost_cents) ==
    [NewCallTask(user_id, "+15551234567", created_at, "elevenlabs_agent")
        EXCEPT !.created_at = created_at,
               !.status = IF cost_cents = NoneInt THEN "scheduled" ELSE "completed",
               !.completed_at = IF cost_cents = NoneInt THEN NoneInt ELSE created_at,
               !.cost_cents = cost_cents]

HistoryRows == {HistoryRow(u, t, c) : u \in UserIds, t \in HistoryTimes, c \in HistoryCosts}

\* the tables of at most MaxRows earlier calls, in the order they were created
HistoryTables ==
    {h \in UNION {[1 .. k -> HistoryRows] : k \in 0 .. MaxRows} :
        \A i \in 1 .. Len(h) - 1 : h[i].created_at <= h[i + 1].created_at}

\* the `created` events of those rows
HistoryEvents(h) ==
    [i \in 1 .. Len(h) |->
        [call_task_id |-> i, event_type |-> "created", timestamp |-> h[i].created_at,
         payload |-> [target_phone |-> h[i].target_phone,
                      scheduled_at |-> h[i].scheduled_at,
                      routing_type |-> "elevenlabs_agent"],
         error_message |-> None]]

InitRouting ==
    /\ now = TicksPerWeek + 1
    /\ config \in [agent_id : BOOLEAN, phone_number_id : BOOLEAN]
    /\ users \in {[u \in UserIds |-> [is_admin |-> (u = 1 /\ a)]] : a \in BOOLEAN}
    /\ call_tasks \in HistoryTables
    /\ call_events = HistoryEvents(call_tasks)
    /\ session = NoSession

\* POST /call/schedule for an immediate call, with the week's history in the table
NextRouting ==
    \E u \in DOMAIN users, o \in DispatchOutcomes :
        /\ Len(call_tasks) <= MaxRows
        /\ ScheduleEffect(u, "+15551234567", NoneInt, o)

SpecRouting == InitRouting /\ [][NextRouting]_vars

(* ---------------- handlers as sequences of commits ---------------------- *)
\* Each handler below is split where the code commits: the query that loads
\* the row, the commit of the assigned columns, and the commit of the event
\* (log_call_event commits on its own).  Requests of several workers
\* interleave between these steps, and a worker may stop between two of them.

\* a request in flight: its handler, the step it has reached, the row it
\* loaded and its input
InFlight(op, pc, id, snap, arg) ==
    [op |-> op, pc |-> pc, id |-> id, snap |-> snap, arg |-> arg]

Busy == {w \in Workers : session[w] # Idle}

\* a worker takes a request only if the events of all requests in flight fit the log
Accepting(w) ==
    /\ session[w] = Idle
    /\ Len(call_events) + Cardinality(Busy) < MaxEvents

\* the UPDATE a commit sends carries only the columns whose assigned value
\* differs from the loaded one
Flushed(loaded, assigned, stored) == IF assigned # loaded THEN assigned ELSE stored

\* n8n_call_start: CallTask.query.get(call_id)
n8n_call_start_query(w, call_id, sid) ==
    /\ Accepting(w)
    /\ IF n8n_call_start_response(call_id).code # 200
       THEN UNCHANGED vars
       ELSE /\ session' = [session EXCEPT ![w] =
                  InFlight("n8n_call_start", "loaded", call_id, call_tasks[call_id], sid)]
            /\ UNCHANGED <<config, users, call_tasks, call_events, now>>

\* n8n_call_start: the three assignments and db.session.commit()
n8n_call_start_commit(w) ==
    LET r == session[w]
        call == call_tasks[r.id]
    IN  /\ w \in Busy /\ r.op = "n8n_call_start" /\ r.pc = "loaded"
        /\ call_tasks' = [call_tasks EXCEPT ![r.id] =
              [call EXCEPT !.status = Flushed(r.snap.status, "in_progress", @),
                           !.started_at = now,
                           !.twilio_call_sid = Flushed(r.snap.twilio_call_sid, r.arg, @)]]
        /\ session' = [session EXCEPT ![w].pc = "committed"]
        /\ UNCHANGED <<config, users, call_events, now>>

\* n8n_call_start: log_call_event(call_id, "started", ...); the row is read
\* again after the commit
n8n_call_start_log(w) ==
    LET r == session[w]
    IN  /\ w \in Busy /\ r.op = "n8n_call_start" /\ r.pc = "committed"
        /\ call_events' = log_call_event(call_events, r.id, "started",
                              [twilio_call_sid |-> call_tasks[r.id].twilio_call_sid], None)
        /\ session' = [session EXCEPT ![w] = Idle]
        /\ UNCHANGED <<config, users, call_tasks, now>>

\* n8n_call_complete: CallTask.query.get(call_id)
n8n_call_complete_query(w, call_id, duration_seconds) ==
    /\ Accepting(w)
    /\ IF n8n_call_complete_response(call_id).code # 200
       THEN UNCHANGED vars
       ELSE /\ session' = [session EXCEPT ![w] =
                  InFlight("n8n_call_complete", "loaded", call_id, call_tasks[call_id],
                           duration_seconds)]
            /\ UNCHANGED <<config, users, call_tasks, call_events, now>>

\* n8n_call_complete: the assignments and db.session.commit(); result_status
\* and result_summary are absent from the body
n8n_call_complete_commit(w) ==
    LET r == session[w]
        call == call_tasks[r.id]
    IN  /\ w \in Busy /\ r.op = "n8n_call_complete" /\ r.pc = "loaded"
        /\ call_tasks' = [call_tasks EXCEPT ![r.id] =
              [call EXCEPT !.status = Flushed(r.snap.status, "completed", @),
                           !.completed_at = now,
                           !.result_status = Flushed(r.snap.result_status, "completed", @),
                           !.result_summary = Flushed(r.snap.result_summary, None, @),
                           !.duration_seconds = Flushed(r.snap.duration_seconds, r.arg, @),
                           !.cost_cents =
                               IF Truthy(r.arg)
                               THEN Flushed(r.snap.cost_cents,
                                            CostCents(r.arg, r.snap.routing_type), @)
                               ELSE @]]
        /\ session' = [session EXCEPT ![w].pc = "committed"]
        /\ UNCHANGED <<config, users, call_events, now>>

\* n8n_call_complete: log_call_event(call_id, "completed", ...) with the
\* columns as they are read back
n8n_call_complete_log(w) ==
    LET r == session[w]
        call == call_tasks[r.id]
    IN  /\ w \in Busy /\ r.op = "n8n_call_complete" /\ r.pc = "committed"
        /\ call_events' = log_call_event(call_events, r.id, "completed",
                              [result_status |-> call.result_status,
                               result_summary |-> call.result_summary,
                               duration_seconds |-> call.duration_seconds], None)
        /\ session' = [session EXCEPT ![w] = Idle]
        /\ UNCHANGED <<config, users, call_tasks, now>>

\* n8n_call_error: CallTask.query.get(call_id)
n8n_call_error_query(w, call_id, error_message) ==
    /\ Accepting(w)
    /\ IF n8n_call_error_response(call_id).code # 200
       THEN UNCHANGED vars
       ELSE /\ session' = [session EXCEPT ![w] =
                  InFlight("n8n_call_error", "loaded", call_id, call_tasks[call_id],
                           error_message)]
            /\ UNCHANGED <<config, users, call_tasks, call_events, now>>

\* n8n_call_error: the assignments and db.session.commit()
n8n_call_error_commit(w) ==
    LET r == session[w]
        call == call_tasks[r.id]
    IN  /\ w \in Busy /\ r.op = "n8n_call_error" /\ r.pc = "loaded"
        /\ call_tasks' = [call_tasks EXCEPT ![r.id] =
              [call EXCEPT !.status = Flushed(r.snap.status, "failed", @),
                           !.completed_at = now,
                           !.result_status = Flushed(r.snap.result_status, "failed", @),
                           !.result_summary = Flushed(r.snap.result_summary, r.arg, @)]]
        /\ session' = [session EXCEPT ![w].pc = "committed"]
        /\ UNCHANGED <<config, users, call_events, now>>

\* n8n_call_error: log_call_event(call_id, "error", ...)
n8n_call_error_log(w) ==
    LET r == session[w]
    IN  /\ w \in Busy /\ r.op = "n8n_call_error" /\ r.pc = "committed"
        /\ call_events' = log_call_event(call_events, r.id, "error",
                              [error_message |-> r.arg], r.arg)
        /\ session' = [session EXCEPT ![w] = Idle]
        /\ UNCHANGED <<config, users, call_tasks, now>>

\* cancel_call: CallTask.query.get(call_id) and the three checks
cancel_call_query(w, user, call_id) ==
    /\ Accepting(w)
    /\ IF cancel_call_response(user, call_id).code # 200
       THEN UNCHANGED vars
       ELSE /\ session' = [session EXCEPT ![w] =
                  InFlight("cancel_call", "loaded", call_id, call_tasks[call_id], None)]
            /\ UNCHANGED <<config, users, call_tasks, call_events, now>>

\* cancel_call: call.status = "canceled" and db.session.commit()
cancel_call_commit(w) ==
    LET r == session[w]
    IN  /\ w \in Busy /\ r.op = "cancel_call" /\ r.pc = "loaded"
        /\ call_tasks' = [call_tasks EXCEPT ![r.id].status =
                              Flushed(r.snap.status, "canceled", @)]
        /\ session' = [session EXCEPT ![w].pc = "committed"]
        /\ UNCHANGED <<config, users, call_events, now>>

\* cancel_call: log_call_event(call_id, "canceled", ...); previous_status is
\* the status read back after the commit
cancel_call_log(w) ==
    LET r == session[w]
    IN  /\ w \in Busy /\ r.op = "cancel_call" /\ r.pc = "committed"
        /\ call_events' = log_call_event(call_events, r.id, "canceled",
                              [previous_status |-> call_tasks[r.id].status], None)
        /\ session' = [session EXCEPT ![w] = Idle]
        /\ UNCHANGED <<config, users, call_tasks, now>>

\* twilio_status_webhook: filter_by(twilio_call_sid=call_sid).first()
twilio_status_webhook_query(w, call_sid, call_status, found) ==
    /\ Accepting(w)
    /\ IF found = 0
       THEN UNCHANGED vars
       ELSE /\ session' = [session EXCEPT ![w] =
                  InFlight("twilio_status_webhook", "loaded", found, call_tasks[found],
                           call_status)]
            /\ UNCHANGED <<config, users, call_tasks, call_events, now>>

\* twilio_status_webhook: log_call_event(call.id, "twilio_status_...", ...),
\* before any column is assigned
twilio_status_webhook_log(w) ==
    LET r == session[w]
    IN  /\ w \in Busy /\ r.op = "twilio_status_webhook" /\ r.pc = "loaded"
        /\ call_events' = log_call_event(call_events, r.id, "twilio_status_" \o r.arg,
                              [call_status |-> r.arg, duration |-> "0"], None)
        /\ session' = [session EXCEPT ![w].pc = "logged"]
        /\ UNCHANGED <<config, users, call_tasks, now>>

\* twilio_status_webhook: the row is read again after the event's commit, then
\* the assignments and db.session.commit(); CallDuration is "0"
twilio_status_webhook_commit(w) ==
    LET r == session[w]
        call == call_tasks[r.id]
    IN  /\ w \in Busy /\ r.op = "twilio_status_webhook" /\ r.pc = "logged"
        /\ IF r.arg = "completed"
           THEN IF call.status # "completed"
                THEN call_tasks' = [call_tasks EXCEPT ![r.id] =
                        [call EXCEPT !.status = "completed",
                                     !.completed_at = now,
                                     !.duration_seconds = IntOf("0")]]
                ELSE UNCHANGED call_tasks
           ELSE IF r.arg \in {"busy", "no-answer", "failed", "canceled"}
           THEN call_tasks' = [call_tasks EXCEPT ![r.id] =
                        [call EXCEPT !.status = "failed",
                                     !.result_status =
                                         IF r.arg = "no-answer" THEN "no_answer" ELSE r.arg,
                                     !.completed_at = now]]
           ELSE UNCHANGED call_tasks
        /\ session' = [session EXCEPT ![w] = Idle]
        /\ UNCHANGED <<config, users, call_events, now>>

\* the worker stops before its next commit: the process is killed, or the
\* commit raises and the handler answers 500
Crash(w) ==
    /\ w \in Busy
    /\ session' = [session EXCEPT ![w] = Idle]
    /\ UNCHANGED <<config, users, call_tasks, call_events, now>>

\* one task that /call/schedule stored for the poller, with its created event
InitSteps ==
    /\ now = 0
    /\ config = [agent_id |-> FALSE, phone_number_id |-> TRUE]
    /\ users = [u \in UserIds |-> [is_admin |-> FALSE]]
    /\ call_tasks = <<NewCallTask(1, "+15551234567", now, "twilio_custom")>>
    /\ call_events = log_call_event(<<>>, 1, "created",
                         [target_phone |-> "+15551234567",
                          scheduled_at |-> now,
                          routing_type |-> "twilio_custom"], None)
    /\ session = NoSession

NextSteps ==
    \E w \in Workers :
        \/ \E id \in CallIds : n8n_call_start_query(w, id, "CA1")
        \/ n8n_call_start_commit(w)
        \/ n8n_call_start_log(w)
        \/ \E id \in CallIds : n8n_call_complete_query(w, id, 60)
        \/ n8n_call_complete_commit(w)
        \/ n8n_call_complete_log(w)
        \/ \E id \in CallIds : n8n_call_error_query(w, id, "Twilio API timeout")
        \/ n8n_call_error_commit(w)
        \/ n8n_call_error_log(w)
        \/ \E u \in DOMAIN users, id \in CallIds : cancel_call_query(w, u, id)
        \/ cancel_call_commit(w)
        \/ cancel_call_log(w)
        \/ \E sid \in Sids, cs \in {"completed", "no-answer"} :
              \E f \in First(sid) : twilio_status_webhook_query(w, sid, cs, f)
        \/ twilio_status_webhook_log(w)
        \/ twilio_status_webhook_commit(w)
        \/ Crash(w)

SpecSteps == InitSteps /\ [][NextSteps]_vars

(* ------------------- creation with any phone text ----------------------- *)
\* target_phone values of a /call/schedule body: absent or empty, a number in
\* E.164 form, and text that is no phone number
RequestPhones == TargetPhones \cup {"not a number"}

InitCreate == Init

NextCreate ==
    \/ Tick
    \/ \E u \in DOMAIN users, p \in RequestPhones, at \in ScheduledAts,
          o \in DispatchOutcomes : schedule_call(u, p, at, o)

SpecCreate == InitCreate /\ [][NextCreate]_vars

(* ------------------- the dialogue of one call --------------------------- *)
\* turn events a dialogue may log
MaxTurns == 15

\* .limit(10): the turns the generation context takes from the log
ContextTurns == 10

\* filter_by(call_task_id=call.id, event_type="turn"): the turn events of a task
RECURSIVE TurnEvents(_, _)
TurnEvents(events, id) ==
    IF events = <<>> THEN <<>>
    ELSE (IF Head(events).call_task_id = id /\ Head(events).event_type = "turn"
          THEN <<Head(events)>> ELSE <<>>) \o TurnEvents(Tail(events), id)

\* a sequence without its i-th element
Without(rows, i) == SubSeq(rows, 1, i - 1) \o SubSeq(rows, i + 1, Len(rows))

\* order_by(CallEvent.timestamp.desc()), for rows with distinct timestamps
RECURSIVE OrderByTimestampDesc(_)
OrderByTimestampDesc(rows) ==
    IF rows = <<>> THEN <<>>
    ELSE LET latest == CHOOSE i \in DOMAIN rows :
                           \A j \in DOMAIN rows : rows[j].timestamp <= rows[i].timestamp
         IN  <<rows[latest]>> \o OrderByTimestampDesc(Without(rows, latest))

\* .limit(n)
Limit(rows, n) == SubSeq(rows, 1, IF Len(rows) < n THEN Len(rows) ELSE n)

\* a context that keeps the newest-first order of the query
Reverse_skipped(rows) == rows

\* events.reverse()
Reverse(rows) == [i \in 1 .. Len(rows) |-> rows[Len(rows) + 1 - i]]

\* the loop over the events: a human or ai turn with text becomes a user or
\* assistant message, any other turn is skipped
RECURSIVE HistoryMessages(_)
HistoryMessages(events) ==
    IF events = <<>> THEN <<>>
    ELSE LET speaker == Head(events).payload.speaker
             text == Head(events).payload.text
         IN  (IF speaker = "human" /\ text # ""
              THEN <<[role |-> "user", content |-> text]>>
              ELSE IF speaker = "ai" /\ text # ""
              THEN <<[role |-> "assistant", content |-> text]>>
              ELSE <<>>) \o HistoryMessages(Tail(events))

\* the messages _phone_agent_chat sends to the model: the system prompt, the
\* history, the current speech
_phone_agent_chat(events, call_id, speech_result) ==
    <<[role |-> "system", content |-> "PHONE_AGENT_SYSTEM_PROMPT"]>>
    \o HistoryMessages(Reverse(Limit(OrderByTimestampDesc(TurnEvents(events, call_id)),
                                     ContextTurns)))
    \o <<[role |-> "user", content |-> speech_result]>>

\* twilio_voice_respond up to the call of the model: the human turn is logged,
\* then the context is built from the log (no context for silence)
twilio_voice_respond_hear(w, call_sid, speech_result, found) ==
    /\ Busy = {}
    /\ found # 0
    /\ Len(TurnEvents(call_events, found)) < MaxTurns
    /\ call_events' = log_call_event(call_events, found, "turn",
                          [speaker |-> "human", text |-> speech_result], None)
    /\ session' = [session EXCEPT ![w] =
          InFlight("twilio_voice_respond", "chat", found, call_tasks[found],
                   [speech_result |-> speech_result,
                    messages |-> IF speech_result # ""
                                 THEN _phone_agent_chat(call_events', found, speech_result)
                                 ELSE <<>>])]
    /\ now' = now + 1
    /\ UNCHANGED <<config, users, call_tasks>>

\* twilio_voice_respond from the model's reply on: the ai turn is logged and an
\* end signal completes the task
twilio_voice_respond_reply(w, reply) ==
    LET r == session[w]
    IN  /\ w \in Busy /\ r.op = "twilio_voice_respond" /\ r.pc = "chat"
        /\ call_events' = log_call_event(call_events, r.id, "turn",
                              [speaker |-> "ai", text |-> AiResponse(r.arg.speech_result, reply)], None)
        /\ IF HasEndSignal(r.arg.speech_result)
           THEN call_tasks' = [call_tasks EXCEPT ![r.id].status = "completed",
                                                 ![r.id].completed_at = now,
                                                 ![r.id].result_status = "success"]
           ELSE UNCHANGED call_tasks
        /\ session' = [session EXCEPT ![w] = Idle]
        /\ now' = now + 1
        /\ UNCHANGED <<config, users>>

\* a twilio_custom task that the poller started with CallSid CA1
InitChat ==
    /\ now = 2
    /\ config = [agent_id |-> FALSE, phone_number_id |-> TRUE]
    /\ users = [u \in UserIds |-> [is_admin |-> FALSE]]
    /\ call_tasks = <<[NewCallTask(1, "+15551234567", 0, "twilio_custom")
                          EXCEPT !.created_at = 0,
                                 !.status = "in_progress",
                                 !.started_at = 1,
                                 !.twilio_call_sid = "CA1"]>>
    /\ call_events =
          <<[call_task_id |-> 1, event_type |-> "created", timestamp |-> 0,
             payload |-> [target_phone |-> "+15551234567", scheduled_at |-> 0,
                          routing_type |-> "twilio_custom"],
             error_message |-> None],
            [call_task_id |-> 1, event_type |-> "started", timestamp |-> 1,
             payload |-> [twilio_call_sid |-> "CA1"],
             error_message |-> None]>>
    /\ session = NoSession

NextChat ==
    \E w \in Workers :
        \/ \E sid \in Sids, sr \in SpeechResults :
              \E f \in First(sid) : twilio_voice_respond_hear(w, sid, sr, f)
        \/ \E r \in AiReplies : twilio_voice_respond_reply(w, r)

SpecChat == InitChat /\ [][NextChat]_vars

(* ------------- create and poll as concurrent requests ------------------- *)
\* .limit(10) of the poll query
PendingLimit == 10

\* the poll query with the status filter only
Pending_any_time(rows) ==
    {i \in DOMAIN rows : rows[i].status = "scheduled"}

\* filter(CallTask.status == "scheduled", CallTask.scheduled_at <= now)
Pending(rows) ==
    {i \in DOMAIN rows : rows[i].status = "scheduled" /\ rows[i].scheduled_at <= now}

\* order_by(CallTask.scheduled_at.asc()): the ids of a set of rows, earliest
\* scheduled_at first
RECURSIVE OrderByScheduledAt(_, _)
OrderByScheduledAt(rows, ids) ==
    IF ids = {} THEN <<>>
    ELSE LET first == CHOOSE i \in ids :
                          \A j \in ids : \/ rows[i].scheduled_at < rows[j].scheduled_at
                                         \/ /\ rows[i].scheduled_at = rows[j].scheduled_at
                                            /\ i <= j
         IN  <<first>> \o OrderByScheduledAt(rows, ids \ {first})

\* GET /n8n/pending-calls: the ids of the calls of the answer
n8n_pending_calls_response ==
    Limit(OrderByScheduledAt(call_tasks, Pending(call_tasks)), PendingLimit)

\* GET /n8n/pending-calls, answered to the polling workflow
n8n_pending_calls(w) ==
    /\ session[w] = Idle
    /\ session' = [session EXCEPT ![w] =
          InFlight("n8n_pending_calls", "answered", 0, None, n8n_pending_calls_response)]
    /\ UNCHANGED <<config, users, call_tasks, call_events, now>>

\* the polling workflow is done with an answer
n8n_pending_calls_done(w) ==
    /\ w \in Busy /\ session[w].op = "n8n_pending_calls"
    /\ session' = [session EXCEPT ![w] = Idle]
    /\ UNCHANGED <<config, users, call_tasks, call_events, now>>

\* schedule_call up to the routing decision: the body is accepted and
\* _should_use_elevenlabs_agent reads the week's usage
schedule_call_decide(w, user, target_phone, scheduled_at_in) ==
    /\ session[w] = Idle
    /\ schedule_call_response(target_phone).code = 201
    /\ session' = [session EXCEPT ![w] =
          InFlight("schedule_call", "decided", 0, None,
                   [user |-> user,
                    target_phone |-> target_phone,
                    scheduled_at |-> IF scheduled_at_in # NoneInt
                                     THEN scheduled_at_in ELSE now,
                    use_agent |-> _should_use_elevenlabs_agent(user)])]
    /\ UNCHANGED <<config, users, call_tasks, call_events, now>>

\* schedule_call: the row is added and committed and the created event logged;
\* a call for the agent backend goes on to the dispatch
schedule_call_insert(w) ==
    LET r == session[w]
        id == Len(call_tasks) + 1
        call == NewCallTask(r.arg.user, r.arg.target_phone, r.arg.scheduled_at,
                            RoutingOf(r.arg.use_agent))
    IN  /\ w \in Busy /\ r.op = "schedule_call" /\ r.pc = "decided"
        /\ call_tasks' = Append(call_tasks, call)
        /\ call_events' = log_call_event(call_events, id, "created",
                              [target_phone |-> call.target_phone,
                               scheduled_at |-> call.scheduled_at,
                               routing_type |-> call.routing_type], None)
        /\ session' = [session EXCEPT ![w] =
              IF r.arg.use_agent
              THEN InFlight("schedule_call", "dispatching", id, call, r.arg)
              ELSE Idle]
        /\ UNCHANGED <<config, users, now>>

\* schedule_call: _initiate_elevenlabs_agent_call has returned or raised; the
\* assigned columns are committed and the event logged
schedule_call_dispatched(w, outcome) ==
    LET r == session[w]
        call == call_tasks[r.id]
    IN  /\ w \in Busy /\ r.op = "schedule_call" /\ r.pc = "dispatching"
        /\ IF outcome.ok
           THEN /\ call_tasks' = [call_tasks EXCEPT ![r.id] =
                      [call EXCEPT !.status = Flushed(r.snap.status, "in_progress", @),
                                   !.started_at = now,
                                   !.twilio_call_sid =
                                       Flushed(r.snap.twilio_call_sid, outcome.callSid, @)]]
                /\ call_events' = log_call_event(call_events, r.id, "started",
                       [routing_type |-> "elevenlabs_agent",
                        twilio_call_sid |-> outcome.callSid], None)
           ELSE /\ call_tasks' = [call_tasks EXCEPT ![r.id].routing_type =
                      Flushed(r.snap.routing_type, "twilio_custom", @)]
                /\ call_events' = log_call_event(call_events, r.id, "agent_fallback",
                       [error |-> "dispatch failed"], None)
        /\ session' = [session EXCEPT ![w] = Idle]
        /\ UNCHANGED <<config, users, now>>

\* the create requests that have not stored their row yet
Creating == {w \in Busy : session[w].op = "schedule_call" /\ session[w].pc = "decided"}

\* the week so far: MaxRows - 2 or MaxRows - 1 finished agent calls of user 1
InitDispatch ==
    /\ now = TicksPerWeek + 1
    /\ config \in [agent_id : BOOLEAN, phone_number_id : {TRUE}]
    /\ users = [u \in UserIds |-> [is_admin |-> FALSE]]
    /\ call_tasks \in {[i \in 1 .. k |-> HistoryRow(1, TicksPerWeek, 1)] :
                          k \in MaxRows - 2 .. MaxRows - 1}
    /\ call_events = HistoryEvents(call_tasks)
    /\ session = NoSession

NextDispatch ==
    \E w \in Workers :
        \/ \E at \in {NoneInt, now + 1} :
              /\ Len(call_tasks) + Cardinality(Creating) <= MaxRows
              /\ schedule_call_decide(w, 1, "+15551234567", at)
        \/ schedule_call_insert(w)
        \/ \E o \in DispatchOutcomes : schedule_call_dispatched(w, o)
        \/ n8n_pending_calls(w)
        \/ n8n_pending_calls_done(w)

SpecDispatch == InitDispatch /\ [][NextDispatch]_vars

(* ------------- calls in flight and their end notification -------------- *)
\* the tasks whose call is in flight
InProgress == {i \in DOMAIN call_tasks : call_tasks[i].status = "in_progress"}

\* the log has room for n more events and for the end notification of every
\* call in flight
Room(n, calls) == Len(call_events) + n + calls <= MaxEvents

\* the backend reports the end of a call in flight, keyed by the call's sid:
\* POST /twilio/status with CallStatus completed or no-answer
Deliver(call_sid) ==
    \E cs \in {"completed", "no-answer"}, d \in CallDurations :
        \E f \in First(call_sid) :
            /\ f \in InProgress
            /\ twilio_status_webhook(call_sid, cs, d, f)

InitLive ==
    /\ now = 0
    /\ config = [agent_id |-> TRUE, phone_number_id |-> TRUE]
    /\ users = [u \in UserIds |-> [is_admin |-> FALSE]]
    /\ call_tasks = <<>>
    /\ call_events = <<>>
    /\ session = NoSession

NextLive ==
    \/ Tick
    \/ \E u \in DOMAIN users, at \in ScheduledAts, o \in DispatchOutcomes :
          /\ Room(2, Cardinality(InProgress) + 1)
          /\ schedule_call(u, "+15551234567", at, o)
    \/ \E id \in DOMAIN call_tasks, sid \in Sids \cup {None} :
          /\ call_tasks[id].status = "scheduled"
          /\ Room(1, Cardinality(InProgress) + 1)
          /\ n8n_call_start(id, sid)
    \/ \E sid \in Sids : Deliver(sid)

\* the backend keeps delivering the end notifications of the calls in flight
SpecLive ==
    InitLive /\ [][NextLive]_vars /\ WF_vars(\E sid \in Sids : Deliver(sid))

(* ======================================================================= *)
(* Properties                                                              *)
(* ======================================================================= *)
Terminal == {"completed", "failed", "canceled"}
Stored == DOMAIN call_tasks

\* the events of one call task, oldest first
EventsOf(id) == EventsOfIn(call_events, id)
Count(id, type) == CountIn(call_events, id, type)

\* the events a step appended for one call task
Appended(id) == EventsOfIn(SubSeq(call_events', Len(call_events) + 1, Len(call_events')), id)
AppendedTypes(id) == [i \in 1 .. Len(Appended(id)) |-> Appended(id)[i].event_type]

\* the columns a completion writes
ResultOf(row) == <<row.status, row.result_status, row.result_summary,
                   row.duration_seconds, row.cost_cents, row.completed_at>>

\* the reference state machine:
\* draft -> scheduled -> in_progress -> {completed | failed}, {draft, scheduled} -> canceled;
\* an operation whose guard fails leaves the status unchanged
RefStart(s) == IF s = "scheduled" THEN "in_progress" ELSE s
RefComplete(s) == IF s = "in_progress" THEN "completed" ELSE s
RefFail(s) == IF s \in {"scheduled", "in_progress"} THEN "failed" ELSE s
RefCancel(s) == IF s \in {"draft", "scheduled"} THEN "canceled" ELSE s
RefStatusCallback(s, call_status) ==
    IF call_status = "completed" THEN RefComplete(s)
    ELSE IF call_status \in {"busy", "no-answer", "failed", "canceled"} THEN RefFail(s)
    ELSE s

\* C1: once a task's status is completed, failed or canceled, no step of any
\* handler changes it again.
C1_TerminalAbsorbing ==
    [][\A id \in Stored :
          call_tasks[id].status \in Terminal
              => call_tasks'[id].status = call_tasks[id].status]_vars

\* C2: every operation moves the stored status of the task it is applied to as
\* the reference state machine does; a task is created scheduled, or in_progress
\* when create dispatched it.
C2_StatusFollowsReference ==
    [][/\ \A id \in Stored :
            LET s == call_tasks[id].status
                t == call_tasks'[id].status
            IN  /\ \A sid \in Sids \cup {None} : n8n_call_start(id, sid) => t = RefStart(s)
                /\ \A sp \in Speakers : n8n_call_turn(id, sp, "yes") => t = s
                /\ \A rs \in ResultStatuses, sm \in ResultSummaries, d \in DurationSeconds :
                      n8n_call_complete(id, rs, sm, d) => t = RefComplete(s)
                /\ n8n_call_error(id, "Twilio API timeout") => t = RefFail(s)
                /\ \A u \in DOMAIN users : cancel_call(u, id) => t = RefCancel(s)
                /\ \A sid \in Sids, cs \in CallStatuses, d \in CallDurations :
                      id \in First(sid) /\ twilio_status_webhook(sid, cs, d, id)
                          => t = RefStatusCallback(s, cs)
       /\ \A id \in DOMAIN call_tasks' \ Stored :
            call_tasks'[id].status \in {"scheduled", "in_progress"}]_vars

\* C3: a cancel of a task that is in_progress or later never succeeds and
\* leaves the status unchanged, and its owner is answered call_cannot_be_canceled;
\* a cancel by the owner of a draft or scheduled task succeeds and sets the
\* status to canceled.
C3_CancelGuard ==
    /\ [](\A id \in Stored, u \in DOMAIN users :
            LET r == cancel_call_response(u, id)
                mine == call_tasks[id].user_id = u
            IN  /\ call_tasks[id].status \notin {"draft", "scheduled"}
                      => /\ r.code # 200
                         /\ mine => r.code = 400 /\ r.error = "call_cannot_be_canceled"
                /\ call_tasks[id].status \in {"draft", "scheduled"} /\ mine
                      => r.code = 200 /\ r.status = "canceled")
    /\ [][\A id \in Stored, u \in DOMAIN users :
            cancel_call(u, id)
                => IF call_tasks[id].status \in {"draft", "scheduled"}
                   THEN call_tasks'[id].status = "canceled" /\ call_tasks[id].user_id = u
                   ELSE call_tasks'[id].status = call_tasks[id].status]_vars

\* C3 witness: one task was canceled by its owner while another is in_progress,
\* where a cancel is refused.
C3_Witness ==
    \E id, other \in Stored :
        /\ call_tasks[id].status = "canceled"
        /\ Count(id, "canceled") = 1
        /\ call_tasks[other].status = "in_progress"
        /\ cancel_call_response(call_tasks[other].user_id, other).error
              = "call_cannot_be_canceled"

\* C4: a start request for a task that is draft, completed, failed or canceled
\* is rejected and does not move the task to in_progress.
C4_StartOnlyFromScheduled ==
    /\ [](\A id \in Stored :
            call_tasks[id].status \in {"draft", "completed", "failed", "canceled"}
                => n8n_call_start_response(id).code # 200)
    /\ [][\A id \in Stored, sid \in Sids \cup {None} :
            /\ n8n_call_start(id, sid)
            /\ call_tasks[id].status \in {"draft", "completed", "failed", "canceled"}
            => call_tasks'[id].status # "in_progress"]_vars

\* C5: a complete request (from the poll collaborator or as a completed status
\* callback) for a task that is scheduled, draft, failed or canceled leaves
\* status, result fields and completed_at unchanged.
C5_CompleteOnlyFromInProgress ==
    [][\A id \in Stored :
          call_tasks[id].status \in {"scheduled", "draft", "failed", "canceled"}
          => /\ \A rs \in ResultStatuses, sm \in ResultSummaries, d \in DurationSeconds :
                   n8n_call_complete(id, rs, sm, d)
                       => ResultOf(call_tasks'[id]) = ResultOf(call_tasks[id])
             /\ \A sid \in Sids, d \in CallDurations :
                   id \in First(sid) /\ twilio_status_webhook(sid, "completed", d, id)
                       => ResultOf(call_tasks'[id]) = ResultOf(call_tasks[id])]_vars

\* the task was started, then completed by a complete notification with this
\* payload, and nothing was recorded for it since
CompletedOnceBy(id, rs, sm, d) ==
    LET ev == EventsOf(id)
        n == Len(ev)
    IN  /\ n >= 2
        /\ ev[n - 1].event_type = "started"
        /\ ev[n].event_type = "completed"
        /\ ev[n].payload = [result_status |-> IF rs = "absent" THEN "completed" ELSE rs,
                            result_summary |-> sm,
                            duration_seconds |-> d]
        /\ call_tasks[id].status = "completed"
        /\ Count(id, "completed") = 1

\* C6: the same complete notification applied a second time to a task it has
\* completed leaves the task completed with exactly one `completed` event.
C6_IdempotentComplete ==
    [][\A id \in Stored, rs \in ResultStatuses, sm \in ResultSummaries, d \in DurationSeconds :
          CompletedOnceBy(id, rs, sm, d) /\ n8n_call_complete(id, rs, sm, d)
              => /\ call_tasks'[id].status = "completed"
                 /\ CountIn(call_events', id, "completed") = 1]_vars

\* C7: a second complete with a different duration appends an `error` event and
\* leaves duration_seconds, cost_cents, result_status, result_summary and
\* completed_at as the first complete set them.
C7_CompleteConflict ==
    [][\A id \in Stored, rs, rs2 \in ResultStatuses, sm \in ResultSummaries,
          d, d2 \in DurationSeconds :
          /\ CompletedOnceBy(id, rs, sm, d)
          /\ d2 # d
          /\ n8n_call_complete(id, rs2, sm, d2)
          => /\ ResultOf(call_tasks'[id]) = ResultOf(call_tasks[id])
             /\ AppendedTypes(id) = <<"error">>]_vars

\* C8: started_at, completed_at and twilio_call_sid, once non-null, are never
\* changed to a different value.
C8_WriteOnce ==
    [][\A id \in Stored :
          /\ call_tasks[id].started_at # NoneInt
                => call_tasks'[id].started_at = call_tasks[id].started_at
          /\ call_tasks[id].completed_at # NoneInt
                => call_tasks'[id].completed_at = call_tasks[id].completed_at
          /\ call_tasks[id].twilio_call_sid # None
                => call_tasks'[id].twilio_call_sid = call_tasks[id].twilio_call_sid]_vars

\* C9: a started notification carrying the call sid an in_progress task already
\* has is answered with success, leaves started_at and the call sid unchanged and
\* appends no further `started` event.
C9_DuplicateStartIsNoOp ==
    /\ [](\A id \in Stored :
            call_tasks[id].status = "in_progress" => n8n_call_start_response(id).code = 200)
    /\ [][\A id \in Stored, sid \in Sids :
            /\ call_tasks[id].status = "in_progress"
            /\ call_tasks[id].twilio_call_sid = sid
            /\ n8n_call_start(id, sid)
            => /\ call_tasks'[id].started_at = call_tasks[id].started_at
               /\ call_tasks'[id].twilio_call_sid = sid
               /\ CountIn(call_events', id, "started") = Count(id, "started")]_vars

\* the event kind that matches a transition into a status
KindOf(status) ==
    IF status = "in_progress" THEN "started"
    ELSE IF status = "completed" THEN "completed"
    ELSE IF status = "failed" THEN "error"
    ELSE IF status = "canceled" THEN "canceled"
    ELSE "created"

\* how many of a sequence of event types are the given one
Occurrences(types, type) == Cardinality({i \in DOMAIN types : types[i] = type})

\* C10: a step that changes a task's status appends exactly one event of the
\* matching kind for that task, and a step that creates a task appends exactly
\* one `created` event for it.
C10_TransitionEmitsMatchingEvent ==
    [][/\ \A id \in Stored :
            call_tasks'[id].status # call_tasks[id].status
                => Occurrences(AppendedTypes(id), KindOf(call_tasks'[id].status)) = 1
       /\ \A id \in DOMAIN call_tasks' \ Stored :
            /\ Occurrences(AppendedTypes(id), "created") = 1
            /\ call_tasks'[id].status = "in_progress"
                  => Occurrences(AppendedTypes(id), "started") = 1]_vars

\* the routing a task was given when it was created: the one its `created` event records
RoutingAtCreation(events, id) == EventsOfIn(events, id)[1].payload.routing_type

\* C13: a new task is routed to the agent-hosted backend exactly when the agent
\* backend is configured and the user is an admin or both the week's cost is
\* below the cost ceiling and the user's calls of the week are below the
\* per-user ceiling; otherwise it is routed to twilio_custom.
C13_RoutingDecision ==
    [][\A id \in DOMAIN call_tasks' \ Stored :
          LET u == call_tasks'[id].user_id
              agent == /\ config.agent_id /\ config.phone_number_id
                       /\ \/ users[u].is_admin
                          \/ /\ _weekly_total_cost_cents < WEEKLY_COST_LIMIT_CENTS
                             /\ _weekly_user_call_count(u) < WEEKLY_CALLS_PER_USER
          IN  RoutingAtCreation(call_events', id) = RoutingOf(agent)]_vars

\* a task was just created by a non-admin user under the call cap, with the
\* agent backend configured
CreatedUnderCap(id) ==
    /\ id = Len(call_tasks)
    /\ call_tasks[id].created_at = now
    /\ call_tasks[id].cost_cents = NoneInt
    /\ config.agent_id /\ config.phone_number_id
    /\ ~users[call_tasks[id].user_id].is_admin
    /\ _weekly_user_call_count(call_tasks[id].user_id) <= WEEKLY_CALLS_PER_USER

\* C13 witness: with the week's cost exactly at the ceiling the new task of a
\* non-admin user under the call cap was routed to twilio_custom.
C13_Witness ==
    \E id \in Stored :
        /\ CreatedUnderCap(id)
        /\ _weekly_total_cost_cents = WEEKLY_COST_LIMIT_CENTS
        /\ RoutingAtCreation(call_events, id) = "twilio_custom"

\* the dispatch of the agent call raised
Raised == [ok |-> FALSE, callSid |-> None]

\* schedule_call accepted the body, chose the agent backend and the dispatch
\* ended as `outcome`; the new row is Len(call_tasks) + 1
AgentCreate(outcome) ==
    \E u \in DOMAIN users, p \in TargetPhones, at \in ScheduledAts :
        /\ schedule_call_response(p).code = 201
        /\ _should_use_elevenlabs_agent(u)
        /\ Len(call_tasks') = Len(call_tasks) + 1
        /\ schedule_call(u, p, at, outcome)

\* C14: the routing of a stored task is never changed by any operation; the
\* only difference between the routing chosen at creation and the routing of
\* the row is the one made by create itself, from elevenlabs_agent to
\* twilio_custom, together with one agent_fallback event.
C14_RoutingImmutable ==
    [][/\ \A id \in Stored : call_tasks'[id].routing_type = call_tasks[id].routing_type
       /\ \A id \in DOMAIN call_tasks' \ Stored :
             RoutingAtCreation(call_events', id) # call_tasks'[id].routing_type
                 => /\ RoutingAtCreation(call_events', id) = "elevenlabs_agent"
                    /\ call_tasks'[id].routing_type = "twilio_custom"
                    /\ Occurrences(AppendedTypes(id), "agent_fallback") = 1]_vars

\* C14 witness: a task that fell back at creation has lived through a later
\* operation and is still routed to twilio_custom.
C14_Witness ==
    \E id \in Stored :
        /\ RoutingAtCreation(call_events, id) = "elevenlabs_agent"
        /\ call_tasks[id].routing_type = "twilio_custom"
        /\ Count(id, "agent_fallback") = 1
        /\ Len(EventsOf(id)) > 2

\* C15: when create chooses the agent backend and the dispatch returns, the
\* created task is in_progress, has started_at set and a non-null call sid.
C15_DispatchSuccess ==
    [][\A o \in DispatchOutcomes :
          o.ok /\ AgentCreate(o)
              => LET call == call_tasks'[Len(call_tasks) + 1]
                 IN  /\ call.status = "in_progress"
                     /\ call.started_at # NoneInt
                     /\ call.twilio_call_sid # None]_vars

\* C16: when create chooses the agent backend and the dispatch raises, the
\* created task is routed to twilio_custom, is scheduled, has exactly one
\* agent_fallback event and neither started_at nor a call sid; a task with an
\* agent_fallback event becomes in_progress only by a start request.
C16_DispatchFailure ==
    [][/\ AgentCreate(Raised)
            => LET id == Len(call_tasks) + 1
                   call == call_tasks'[id]
               IN  /\ call.routing_type = "twilio_custom"
                   /\ call.status = "scheduled"
                   /\ CountIn(call_events', id, "agent_fallback") = 1
                   /\ CountIn(call_events', id, "started") = 0
                   /\ call.started_at = NoneInt
                   /\ call.twilio_call_sid = None
       /\ \A id \in Stored :
            /\ Count(id, "agent_fallback") >= 1
            /\ call_tasks[id].status # "in_progress"
            /\ call_tasks'[id].status = "in_progress"
            => \E sid \in Sids \cup {None} :
                  /\ n8n_call_start_response(id).code = 200
                  /\ n8n_call_start(id, sid)]_vars

\* C16 witness: a task whose dispatch raised was later started by the poller.
C16_Witness ==
    \E id \in Stored :
        /\ Count(id, "agent_fallback") = 1
        /\ call_tasks[id].routing_type = "twilio_custom"
        /\ Count(id, "started") = 1
        /\ call_tasks[id].status = "in_progress"

\* C17: while the current time is before a task's scheduled_at the task has
\* not been dispatched: it is not in_progress and has no started event.
C17_NotBeforeDue ==
    \A id \in Stored :
        now < call_tasks[id].scheduled_at
            => /\ call_tasks[id].status # "in_progress"
               /\ Count(id, "started") = 0

\* C18: a turn for a task that is not in_progress is rejected and changes
\* nothing; a turn for an in_progress task, from the poller or from the speech
\* webhook, leaves status, timestamps and result columns unchanged.
TurnFrame(row) == <<row.status, row.started_at, row.completed_at, row.result_status,
                    row.result_summary, row.duration_seconds, row.cost_cents>>

C18_TurnOnlyInProgress ==
    [][\A id \in Stored :
          /\ \A sp \in Speakers :
                n8n_call_turn(id, sp, "yes")
                    => IF call_tasks[id].status = "in_progress"
                       THEN TurnFrame(call_tasks'[id]) = TurnFrame(call_tasks[id])
                       ELSE /\ n8n_call_turn_response(id).code # 200
                            /\ UNCHANGED <<call_tasks, call_events>>
          /\ \A sid \in Sids, sr \in SpeechResults, r \in AiReplies :
                id \in First(sid) /\ twilio_voice_respond(sid, sr, r, id)
                    => IF call_tasks[id].status = "in_progress"
                       THEN TurnFrame(call_tasks'[id]) = TurnFrame(call_tasks[id])
                       ELSE UNCHANGED <<call_tasks, call_events>>]_vars

\* the (speaker, text) of the turn events of a log, oldest first
RECURSIVE TurnsOf(_)
TurnsOf(events) ==
    IF events = <<>> THEN <<>>
    ELSE (IF Head(events).event_type = "turn"
          THEN <<[speaker |-> Head(events).payload.speaker,
                  text |-> Head(events).payload.text]>>
          ELSE <<>>) \o TurnsOf(Tail(events))

\* C19: the transcript of every task is the in-order concatenation of the
\* (speaker, text) of its turn events.
C19_TranscriptIsTurnCache ==
    \A id \in Stored : call_tasks[id].transcript = TurnsOf(EventsOf(id))

\* C20: every step keeps the events already recorded, of the whole log and of
\* each task, as a prefix of the events recorded afterwards.
IsPrefix(s, t) == Len(s) <= Len(t) /\ SubSeq(t, 1, Len(s)) = s

RECURSIVE ImpliedStatus(_, _)
ImpliedStatus(events, status) ==
    IF events = <<>> THEN status
    ELSE LET type == Head(events).event_type
         IN  ImpliedStatus(Tail(events),
                 IF type = "created" THEN "scheduled"
                 ELSE IF type = "started" THEN "in_progress"
                 ELSE IF type \in {"completed", "twilio_status_completed"} THEN "completed"
                 ELSE IF type \in {"error", "twilio_status_no-answer"} THEN "failed"
                 ELSE IF type = "canceled" THEN "canceled"
                 ELSE status)

\* C11: whenever no request is in flight, also after a worker stopped between
\* two commits, the stored status of every task is the one its event history
\* stands for.
C11_StatusReflectedByHistory ==
    Busy = {} => \A id \in Stored :
                    call_tasks[id].status = ImpliedStatus(EventsOf(id), None)

\* the positions of the events of one type in a history
Positions(events, type) == {i \in DOMAIN events : events[i].event_type = type}

\* C12: the history of a task is one that some sequential run of the guarded
\* state machine produces: a cancel succeeds only before any start, so no
\* canceled event is recorded after a started event.
C12_NoCancelAfterStart ==
    \A id \in Stored :
        \A i \in Positions(EventsOf(id), "started"), j \in Positions(EventsOf(id), "canceled") :
            j < i

\* C21: an error notification for a task that is scheduled or in_progress sets
\* status failed and completed_at and records one error event; for a task in
\* any other status it is rejected and the task is unchanged.
C21_FailGuard ==
    [][\A id \in Stored :
          n8n_call_error(id, "Twilio API timeout")
              => IF call_tasks[id].status \in {"scheduled", "in_progress"}
                 THEN /\ call_tasks'[id].status = "failed"
                      /\ call_tasks'[id].completed_at = now
                      /\ AppendedTypes(id) = <<"error">>
                 ELSE /\ n8n_call_error_response(id).code # 200
                      /\ call_tasks' = call_tasks]_vars

\* a step appended exactly one error event for the task and changed no row
RejectionLogged(id) ==
    /\ call_tasks' = call_tasks
    /\ Len(call_events') = Len(call_events) + 1
    /\ AppendedTypes(id) = <<"error">>

\* C22: a cancel that the status check refuses is answered as rejected, appends
\* one error event to the task's log and leaves the row unchanged.
C22_RejectionIsLogged ==
    \A u \in DOMAIN users, id \in Stored :
        cancel_call_response(u, id).error = "call_cannot_be_canceled"
            => /\ cancel_call_response(u, id).code # 200
               /\ ENABLED (cancel_call(u, id) /\ RejectionLogged(id))

\* C23: a status callback whose CallSid matches no task changes no row, appends
\* no event and is answered differently from a callback that matched.
C23_UnmatchedIsNotFound ==
    \A sid \in Sids, cs \in CallStatuses, d \in CallDurations :
        BySid(sid) = {}
            => /\ ENABLED (twilio_status_webhook(sid, cs, d, 0) /\ UNCHANGED vars)
               /\ twilio_status_webhook_response # Resp(200, None, None)

\* the request phones that can be normalized to E.164
NormalizableToE164 == {"+15551234567"}

\* C24: a create request whose phone is missing, empty or not normalizable to
\* E.164 is answered with a validation error and stores no task and no event.
C24_PhoneValidated ==
    [][\A u \in DOMAIN users, p \in RequestPhones \ NormalizableToE164,
          at \in ScheduledAts, o \in DispatchOutcomes :
          schedule_call(u, p, at, o)
              => /\ schedule_call_response(p).code = 400
                 /\ UNCHANGED <<call_tasks, call_events>>]_vars

\* the least integer not below a / b, for b > 0
CeilDiv(a, b) == (a + b - 1) \div b

\* C25: every completed task with a duration has
\* cost_cents = ceil(duration_seconds / 60 * rate of its routing).
C25_CostIsCeiling ==
    \A id \in Stored :
        LET call == call_tasks[id]
        IN  call.status = "completed" /\ Truthy(call.duration_seconds)
                => call.cost_cents =
                       CeilDiv(call.duration_seconds * RateOf(call.routing_type), 60)

\* the result_status the reference gives a failure callback: the status string
\* with "-" written as "_"
NormalizedStatus(call_status) ==
    IF call_status = "no-answer" THEN "no_answer" ELSE call_status

FailureStatuses == {"busy", "no-answer", "failed", "canceled"}

\* C26: a busy, no-answer, failed or canceled status callback for a scheduled
\* or in_progress task sets status failed, completed_at and the normalized
\* result_status; delivered again to the task it already failed, it leaves the
\* row as it is.
C26_FailureCallback ==
    [][\A id \in Stored, sid \in Sids, cs \in CallStatuses \cap FailureStatuses,
          d \in CallDurations :
          id \in First(sid) /\ twilio_status_webhook(sid, cs, d, id)
              => /\ call_tasks[id].status \in {"scheduled", "in_progress"}
                    => /\ call_tasks'[id].status = "failed"
                       /\ call_tasks'[id].completed_at = now
                       /\ call_tasks'[id].result_status = NormalizedStatus(cs)
                 /\ /\ call_tasks[id].status = "failed"
                    /\ call_tasks[id].result_status = NormalizedStatus(cs)
                    /\ Count(id, "twilio_status_" \o cs) >= 1
                    => call_tasks'[id] = call_tasks[id]]_vars

\* the outcome classification of the reference
ResultClasses == {"success", "no_answer", "busy", "failed"}

\* C27: the result_status of every task is null or one of success, no_answer,
\* busy, failed.
C27_ResultStatusClassified ==
    \A id \in Stored : call_tasks[id].result_status \in ResultClasses \cup {None}

\* C28: started_at, when set, is not earlier than created_at; completed_at,
\* when set, is not earlier than created_at nor than a set started_at.
C28_TimestampsOrdered ==
    \A id \in Stored :
        LET call == call_tasks[id]
        IN  /\ call.started_at # NoneInt => call.started_at >= call.created_at
            /\ call.completed_at # NoneInt
                  => /\ call.completed_at >= call.created_at
                     /\ call.started_at # NoneInt => call.completed_at >= call.started_at

\* the contexts of the requests waiting for the model's reply
Contexts ==
    {w \in Busy : /\ session[w].op = "twilio_voice_respond"
                  /\ session[w].pc = "chat"
                  /\ session[w].arg.messages # <<>>}

\* the turn events of a task, oldest first as they were logged
LoggedTurns(id) == SelectSeq(EventsOf(id), LAMBDA e : e.event_type = "turn")

\* the last n elements of a sequence
Latest(rows, n) == SubSeq(rows, IF Len(rows) > n THEN Len(rows) - n + 1 ELSE 1, Len(rows))

\* the turns with text, as messages
Spoken(turns) ==
    LET said == SelectSeq(turns, LAMBDA e : e.payload.text # "")
    IN  [i \in 1 .. Len(said) |->
            [role |-> IF said[i].payload.speaker = "ai" THEN "assistant" ELSE "user",
             content |-> said[i].payload.text]]

\* the messages of a context between the first and the last
HistoryOf(messages) == SubSeq(messages, 2, Len(messages) - 1)

WeekBoundary ==
    CHOOSE b \in 0 .. now : b % TicksPerWeek = 0 /\ b <= now /\ now < b + TicksPerWeek

\* the tasks created at or after the boundary
ThisWeek == {i \in Stored : call_tasks[i].created_at >= WeekBoundary}

RECURSIVE CostOver(_)
CostOver(ids) ==
    IF ids = {} THEN 0
    ELSE LET i == CHOOSE i \in ids : TRUE
         IN  call_tasks[i].cost_cents + CostOver(ids \ {i})

\* C30: the weekly cost is the sum of the non-null cost_cents of the tasks
\* created at or after the week boundary, and a user's weekly call count is
\* the number of that user's tasks created at or after it, whatever their
\* status or cost.
C30_WeeklyUsage ==
    /\ _weekly_total_cost_cents =
          CostOver({i \in ThisWeek : call_tasks[i].cost_cents # NoneInt})
    /\ \A u \in UserIds :
          _weekly_user_call_count(u) =
              Cardinality({i \in ThisWeek : call_tasks[i].user_id = u})

\* C30 witness: the table holds a finalized task from before the boundary, and
\* from this week a finalized task and one the same user has just scheduled,
\* which is not completed and has no cost.
C30_Witness ==
    /\ \E i \in Stored \ ThisWeek : call_tasks[i].cost_cents # NoneInt
    /\ \E i, j \in ThisWeek :
          /\ call_tasks[i].cost_cents # NoneInt
          /\ call_tasks[j].cost_cents = NoneInt
          /\ call_tasks[j].status \in {"scheduled", "in_progress"}
          /\ call_tasks[j].created_at = now
          /\ call_tasks[j].user_id = call_tasks[i].user_id
    /\ _weekly_total_cost_cents > 0

\* C35: no two distinct tasks hold the same non-null twilio_call_sid.
C35_SidIdentifiesOneTask ==
    \A i, j \in Stored :
        i # j /\ call_tasks[i].twilio_call_sid # None
            => call_tasks[i].twilio_call_sid # call_tasks[j].twilio_call_sid

\* a sequence without its last element
Front(rows) == SubSeq(rows, 1, Len(rows) - 1)

\* C36: the history of a generation context is taken from the turns logged
\* before the current utterance; the current utterance is only its final
\* user message.
C36_UtteranceOnce ==
    \A w \in Contexts :
        LET m == session[w].arg.messages
            turns == LoggedTurns(session[w].id)
        IN  /\ m[Len(m)] = [role |-> "user", content |-> session[w].arg.speech_result]
            /\ HistoryOf(m) = Spoken(Latest(Front(turns), ContextTurns))

\* the snapshot reports agent-hosted routing
ReportsAgent(current_routing) ==
    current_routing \in {"elevenlabs_agent", "elevenlabs_agent (admin bypass)"}

\* C37: the usage snapshot of a user reports agent-hosted routing exactly when
\* the policy of create routes a new task of that user to the agent backend.
C37_SnapshotAgreesWithPolicy ==
    \A u \in DOMAIN users :
        ReportsAgent(usage_stats(u)) <=> _should_use_elevenlabs_agent(u)

\* C39: a cancel for an unknown task id is answered not found, a cancel by a
\* user who does not own the task is answered unauthorized, and neither
\* changes a task or an event.
C39_CancelByStranger ==
    /\ [](\A u \in DOMAIN users, id \in CallIds :
            LET r == cancel_call_response(u, id)
            IN  IF id \notin Stored
                THEN r.code = 404 /\ r.error = "call_not_found"
                ELSE call_tasks[id].user_id # u
                        => r.code = 403 /\ r.error = "unauthorized")
    /\ [][\A u \in DOMAIN users, id \in CallIds :
            /\ cancel_call(u, id)
            /\ id \in Stored => call_tasks[id].user_id # u
            => UNCHANGED <<call_tasks, call_events>>]_vars

\* C39 witness: a scheduled task, which its owner could cancel, and a user who
\* does not own it and is answered unauthorized.
C39_Witness ==
    \E id \in Stored, u \in DOMAIN users :
        /\ call_tasks[id].status = "scheduled"
        /\ call_tasks[id].user_id # u
        /\ cancel_call_response(call_tasks[id].user_id, id).code = 200
        /\ cancel_call_response(u, id).code = 403
        /\ Len(call_events) < MaxEvents

\* C40: the canceled event of a successful cancel records as previous_status
\* the status the task had before the cancel.
C40_PreviousStatus ==
    [][\A u \in DOMAIN users, id \in Stored :
          cancel_call(u, id) /\ cancel_call_response(u, id).code = 200
              => /\ Len(Appended(id)) = 1
                 /\ Appended(id)[1].event_type = "canceled"
                 /\ Appended(id)[1].payload.previous_status = call_tasks[id].status
                 /\ call_tasks[id].status \in {"draft", "scheduled"}]_vars

\* the polls whose answer the polling workflow holds
Answered == {w \in Busy : session[w].op = "n8n_pending_calls"}

\* the ids of an answer
Returned(answer) == {answer[k] : k \in DOMAIN answer}

\* C31: every task a poll returns is scheduled and has scheduled_at <= now
\* when the poll is answered; a task in another status or due later is not
\* returned.
C31_PollReturnsDueScheduled ==
    [][\A w \in Workers :
          n8n_pending_calls(w)
              => \A id \in Stored :
                    id \in Returned(session'[w].arg)
                        => /\ call_tasks[id].status = "scheduled"
                           /\ call_tasks[id].scheduled_at <= now]_vars

\* C31 witness: a poll returned a task while the table also holds a scheduled
\* task due later and an in_progress task, neither of them returned.
C31_Witness ==
    \E w \in Answered, i, j \in Stored :
        /\ Returned(session[w].arg) # {}
        /\ call_tasks[i].status = "scheduled" /\ call_tasks[i].scheduled_at > now
        /\ call_tasks[j].status = "in_progress"
        /\ {i, j} \cap Returned(session[w].arg) = {}

\* the create requests waiting for the agent dispatch of their stored task
Dispatching ==
    {w \in Busy : session[w].op = "schedule_call" /\ session[w].pc = "dispatching"}

\* C32: a task whose agent dispatch create is performing is in no answer of
\* a poll.
C32_OneDispatcher ==
    \A w \in Dispatching, p \in Answered :
        session[w].id \notin Returned(session[p].arg)

\* C33: the tasks of a non-admin user created this week and routed to the
\* agent backend at creation are at most WEEKLY_CALLS_PER_USER.
C33_WeeklyCapHolds ==
    \A u \in DOMAIN users :
        ~users[u].is_admin
            => Cardinality({i \in ThisWeek :
                               /\ call_tasks[i].user_id = u
                               /\ RoutingAtCreation(call_events, i) = "elevenlabs_agent"})
                   <= WEEKLY_CALLS_PER_USER

\* C38: a poll does not return a task that an earlier poll returned and that
\* is still scheduled.
C38_HandedOverOnce ==
    [][\A w \in Workers :
          n8n_pending_calls(w)
              => \A p \in Answered, id \in Stored :
                    id \in Returned(session[p].arg) /\ call_tasks[id].status = "scheduled"
                        => id \notin Returned(session'[w].arg)]_vars

\* C34: every task that is in_progress is later completed or failed.
C34_InProgressEnds ==
    \A id \in CallIds :
        (id \in Stored /\ call_tasks[id].status = "in_progress")
            ~> (id \in Stored /\ call_tasks[id].status \in {"completed", "failed"})

====
